---- MODULE Spec2Model ----
(***************************************************************************)
(* Dietician & Recipe Builder API (src/main.py, src/schemas.py).           *)
(*                                                                         *)
(* Four handlers over two collaborators: the document store reached        *)
(* through the module-level handle db (collections "user" and              *)
(* "recipesearch") and the external recipe service reached with            *)
(* requests.get.  Strings are tuples of one-character strings, so that     *)
(* str.split and str.join are computed, not assumed.  An Optional field    *)
(* is a tuple of length 0 (None) or 1 (the value).                         *)
(***************************************************************************)
EXTENDS Integers, Sequences, FiniteSets

VARIABLES db, users, recipesearch, pc, req, last

vars == <<db, users, recipesearch, pc, req, last>>

(***************************************************************************)
(* Bounds of the model.                                                    *)
(***************************************************************************)
NumClients == 2
MaxUsers == 2
MaxSearches == 1
ExtraMeals == 1

Procs == 1..NumClients

(***************************************************************************)
(* Optional values and Python truthiness.                                  *)
(***************************************************************************)
None == <<>>
Some(x) == <<x>>
IsNone(o) == o = <<>>
Val(o) == o[1]

\* bool(x) of an Optional[str] or Optional[List[str]]: None, "" and [] are falsy
Truthy(o) == o # <<>> /\ Val(o) # <<>>

(***************************************************************************)
(* Strings.                                                                *)
(***************************************************************************)
RECURSIVE CountChar(_, _)
CountChar(s, c) ==
    IF s = <<>> THEN 0
    ELSE (IF Head(s) = c THEN 1 ELSE 0) + CountChar(Tail(s), c)

\* s.split(c)[0]: the part of s before the first c (all of s when c is absent)
RECURSIVE SplitHead(_, _)
SplitHead(s, c) ==
    IF s = <<>> THEN <<>>
    ELSE IF Head(s) = c THEN <<>>
    ELSE <<Head(s)>> \o SplitHead(Tail(s), c)

\* sep.join(items)
RECURSIVE Join(_, _)
Join(items, sep) ==
    IF items = <<>> THEN <<>>
    ELSE IF Len(items) = 1 THEN items[1]
    ELSE items[1] \o sep \o Join(Tail(items), sep)

\* EmailStr: one "@" with something on both sides
IsEmail(s) ==
    /\ CountChar(s, "@") = 1
    /\ SplitHead(s, "@") # <<>>
    /\ Len(SplitHead(s, "@")) < Len(s) - 1

(***************************************************************************)
(* Request values the clients send.                                        *)
(***************************************************************************)
EmailA == <<"a", "@", "x">>
EmailB == <<"b", "@", "x">>
NotAnEmail == <<"a", "x">>

Emails == {EmailA, EmailB, NotAnEmail}
Passwords == {<<"p", "w", "d">>, <<"p", "a", "s", "s">>, <<"w", "o", "r", "d">>}
\* every email and password without a name, and one body that gives a name
AuthPayloads ==
    [name : {None}, email : Emails, password : Passwords]
    \cup {[name |-> Some(<<"Z">>), email |-> EmailB,
           password |-> <<"p", "a", "s", "s">>]}

\* AuthPayload(BaseModel): the request body FastAPI validates before the handler
ValidAuthPayload(payload) == IsEmail(payload.email)

\* User.password: Field(..., min_length=4)
MinPasswordLen == 4

\* User(BaseModel): the constraints checked when the handler constructs a User
ValidUser(user) ==
    /\ IsEmail(user.email)
    /\ Len(user.password) >= MinPasswordLen

(***************************************************************************)
(* The document store.  db is None when the store is not configured; a     *)
(* configured handle is truthy.                                            *)
(***************************************************************************)
Configured == db = "configured"

RECURSIVE SelectDocs(_, _, _)
SelectDocs(coll, field, value) ==
    IF coll = <<>> THEN <<>>
    ELSE (IF Head(coll)[field] = value THEN <<Head(coll)>> ELSE <<>>)
             \o SelectDocs(Tail(coll), field, value)

\* list(db["user"].find({"email": email}))
Find(coll, email) == SelectDocs(coll, "email", email)

\* variant of FindOne whose filter leaves the password out
FindOneByEmail(coll, email, password) ==
    LET hits == SelectDocs(coll, "email", email)
    IN  IF hits = <<>> THEN None ELSE Some(Head(hits))

\* db["user"].find_one({"email": email, "password": password})
FindOne(coll, email, password) ==
    LET hits == SelectDocs(SelectDocs(coll, "email", email), "password", password)
    IN  IF hits = <<>> THEN None ELSE Some(Head(hits))

\* create_document(collection_name, data): raises when there is no store
CreateDocumentRaises == ~Configured

\* collection after create_document(collection_name, data) returned
Inserted(coll, doc) == Append(coll, doc)

(***************************************************************************)
(* Operations a handler performs on its collaborators, in order.           *)
(***************************************************************************)
OpFind(collection) == [op |-> "find", target |-> collection]
OpInsert(collection, doc) == [op |-> "insert", target |-> collection, doc |-> doc]
OpGet(endpoint, param) == [op |-> "get", target |-> endpoint, param |-> param]

NoExt == [kind |-> "none"]

Response(route, payload, ext, code, body, ops) ==
    [route |-> route, req |-> payload, ext |-> ext,
     status |-> code, body |-> body, ops |-> ops]

Detail(text) == [detail |-> text]

\* FastAPI answers 422 when the body fails the handler's parameter model
Rejected(route, payload) ==
    Response(route, payload, NoExt, 422, Detail("validation error"), <<>>)

\* last is the latest response sent
Reply(r) == last' = r

(***************************************************************************)
(* POST /auth/signup                                                       *)
(***************************************************************************)
\* variant of Existing that never looks the email up
ExistingUnchecked(payload) == <<>>

\* existing = list(db["user"].find({"email": payload.email})) if db else []
Existing(payload) == IF Configured THEN Find(users, payload.email) ELSE <<>>

ExistingOps == IF Configured THEN <<OpFind("user")>> ELSE <<>>

\* User(name=payload.name or payload.email.split("@")[0], ...)
NewUser(payload) ==
    [name |-> IF Truthy(payload.name) THEN Val(payload.name)
              ELSE SplitHead(payload.email, "@"),
     email |-> payload.email,
     password |-> payload.password]

InFlight == Cardinality({q \in Procs : pc[q] = "signup_insert"})

\* request validation and the existence check (lines 33-37)
SignupCheck(p, payload) ==
    /\ pc[p] = "idle"
    /\ IF ~ValidAuthPayload(payload)
       THEN /\ Reply(Rejected("signup", payload))
            /\ UNCHANGED <<pc, req>>
       ELSE IF Existing(payload) # <<>>
       THEN /\ Reply(Response("signup", payload, NoExt, 400,
                                 Detail("User already exists"), ExistingOps))
            /\ UNCHANGED <<pc, req>>
       ELSE /\ Len(users) + InFlight < MaxUsers
            /\ pc' = [pc EXCEPT ![p] = "signup_insert"]
            /\ req' = [req EXCEPT ![p] = Some(payload)]
            /\ UNCHANGED last
    /\ UNCHANGED <<db, users, recipesearch>>

\* variant of SignupInsert that looks the email up again as it inserts
SignupInsertRechecked(p) ==
    /\ pc[p] = "signup_insert"
    /\ LET payload == Val(req[p])
           user == NewUser(payload)
       IN  IF ValidUser(user) /\ Configured /\ Find(users, payload.email) = <<>>
           THEN /\ users' = Inserted(users, user)
                /\ Reply(Response("signup", payload, NoExt, 200,
                                  [ok |-> TRUE, user_id |-> Len(users) + 1],
                                  ExistingOps \o <<OpInsert("user", user)>>))
           ELSE /\ Reply(Response("signup", payload, NoExt, 400,
                                  Detail("User already exists"), ExistingOps))
                /\ UNCHANGED users
    /\ pc' = [pc EXCEPT ![p] = "idle"]
    /\ req' = [req EXCEPT ![p] = None]
    /\ UNCHANGED <<db, recipesearch>>

\* construction of the User and the insert (lines 38-40)
SignupInsert(p) ==
    /\ pc[p] = "signup_insert"
    /\ LET payload == Val(req[p])
           user == NewUser(payload)
       IN  IF ~ValidUser(user)
           THEN /\ Reply(Response("signup", payload, NoExt, 500,
                                     Detail("Internal Server Error"), ExistingOps))
                /\ UNCHANGED users
           ELSE IF CreateDocumentRaises
           THEN /\ Reply(Response("signup", payload, NoExt, 500,
                                     Detail("Internal Server Error"),
                                     ExistingOps \o <<OpInsert("user", user)>>))
                /\ UNCHANGED users
           ELSE /\ users' = Inserted(users, user)
                /\ Reply(Response("signup", payload, NoExt, 200,
                                     [ok |-> TRUE, user_id |-> Len(users) + 1],
                                     ExistingOps \o <<OpInsert("user", user)>>))
    /\ pc' = [pc EXCEPT ![p] = "idle"]
    /\ req' = [req EXCEPT ![p] = None]
    /\ UNCHANGED <<db, recipesearch>>

(***************************************************************************)
(* POST /auth/login                                                        *)
(***************************************************************************)
Login(payload) ==
    /\ IF ~ValidAuthPayload(payload)
       THEN Reply(Rejected("login", payload))
       ELSE IF ~Configured
       THEN Reply(Response("login", payload, NoExt, 500,
                              Detail("Database not configured"), <<>>))
       ELSE LET user == FindOne(users, payload.email, payload.password)
            IN  IF IsNone(user)
                THEN Reply(Response("login", payload, NoExt, 401,
                                       Detail("Invalid credentials"),
                                       <<OpFind("user")>>))
                ELSE Reply(Response("login", payload, NoExt, 200,
                                       [ok |-> TRUE, email |-> Val(user).email,
                                        name |-> Val(user).name],
                                       <<OpFind("user")>>))
    /\ UNCHANGED <<db, users, recipesearch, pc, req>>

(***************************************************************************)
(* POST /recipes/search                                                    *)
(***************************************************************************)
\* for m in meals[:12]
MaxResults == 12

Query == <<"q">>
Egg == <<"e", "g">>
Ham == <<"h">>
Comma == <<",">>

RecipeSearches ==
    [query : {None, Some(<<>>), Some(Query)},
     ingredients : {None, Some(<<Egg, Ham>>)},
     food_type : {"any"},
     user_email : {None, Some(EmailA)}]
    \cup [query : {None}, ingredients : {Some(<<>>)}, food_type : {"any"},
          user_email : {None, Some(EmailA)}]
    \cup {[query |-> Some(Query), ingredients |-> None, food_type |-> "bogus",
           user_email |-> Some(EmailA)],
          [query |-> Some(Query), ingredients |-> None, food_type |-> "any",
           user_email |-> Some(NotAnEmail)]}

\* RecipeSearch(BaseModel): food_type is a Literal, user_email an EmailStr
RecipeFoodTypes ==
    {"veg", "non-veg", "vegan", "lactose-intolerant", "gluten-free", "keto",
     "paleo", "any"}

ValidRecipeSearch(payload) ==
    /\ payload.food_type \in RecipeFoodTypes
    /\ IsNone(payload.user_email) \/ IsEmail(Val(payload.user_email))

\* A meal as the service returns it.  search.php gives every field, and more
\* than the handler keeps; filter.php gives no category and no area.
Meal(i) ==
    IF i % 2 = 1
    THEN [dict |-> TRUE,
          fields |-> [idMeal |-> i, strMeal |-> <<"m", i>>,
                      strMealThumb |-> <<"t", i>>, strCategory |-> <<"c", i>>,
                      strArea |-> <<"a", i>>, strInstructions |-> <<"i", i>>]]
    ELSE [dict |-> TRUE,
          fields |-> [idMeal |-> i, strMeal |-> <<"m", i>>,
                      strMealThumb |-> <<"t", i>>]]

\* an item of the meals array that is not a JSON object
NotAMeal == [dict |-> FALSE]

MealCounts == {0, 1} \cup ((MaxResults - 1)..(MaxResults + ExtraMeals))

\* n meals in ascending or descending order, the one at position bad (if any)
\* replaced by an item that is no object
MealList(n, ascending, bad) ==
    [i \in 1..n |-> IF i = bad THEN NotAMeal
                    ELSE IF ascending THEN Meal(i) ELSE Meal(n + 1 - i)]

\* every count in ascending order; the longest list also in descending order
\* and with an item that is no object first, at position 12 and after it
MealLists ==
    {MealList(n, TRUE, 0) : n \in MealCounts}
    \cup {MealList(MaxResults + ExtraMeals, FALSE, 0)}
    \cup {MealList(MaxResults + ExtraMeals, TRUE, bad) :
             bad \in {1, MaxResults, MaxResults + 1}}

\* what r.json() yields: not JSON at all (it raises), a JSON array, or an
\* object whose "meals" is null or absent, a number, or an array
Bodies ==
    {[json |-> "invalid"], [json |-> "array"],
     [json |-> "object", meals |-> "null"],
     [json |-> "object", meals |-> "number"]}
    \cup {[json |-> "object", meals |-> "list", list |-> l] : l \in MealLists}

\* what requests.get(..., timeout=10) yields
ExtOutcomes ==
    {[kind |-> "connection_error"], [kind |-> "timeout"]}
    \cup {[kind |-> "response", code |-> 200, body |-> b] : b \in Bodies}
    \cup {[kind |-> "response", code |-> 500, body |-> b] :
             b \in {[json |-> "invalid"],
                    [json |-> "object", meals |-> "list",
                     list |-> MealList(1, TRUE, 0)]}}

\* variant of Endpoint that looks at the ingredients first
EndpointIngredientsFirst(payload) ==
    IF Truthy(payload.ingredients) THEN "filter"
    ELSE IF Truthy(payload.query) THEN "search"
    ELSE "none"

\* the branch taken at lines 130-139
Endpoint(payload) ==
    IF Truthy(payload.query) THEN "search"
    ELSE IF Truthy(payload.ingredients) THEN "filter"
    ELSE "none"

\* the requests.get call of the branch
ExternalCalls(payload) ==
    IF Endpoint(payload) = "search"
    THEN <<OpGet("search", Val(payload.query))>>
    ELSE IF Endpoint(payload) = "filter"
    THEN <<OpGet("filter", Join(Val(payload.ingredients), Comma))>>
    ELSE <<>>

\* requests.get, r.json() or data.get("meals") raises
FetchRaises(ext) ==
    \/ ext.kind \in {"connection_error", "timeout"}
    \/ /\ ext.kind = "response"
       /\ ext.body.json \in {"invalid", "array"}

\* meals = data.get("meals") or []   (only read when the fetch did not raise)
FetchedMeals(ext) ==
    IF ext.kind = "response" /\ ext.body.json = "object" /\ ext.body.meals = "list"
    THEN ext.body.list
    ELSE <<>>

\* meals[:12] raises on a number
SliceRaises(ext) ==
    /\ ext.kind = "response"
    /\ ext.body.json = "object"
    /\ ext.body.meals = "number"

\* seq[:n]
Take(seq, n) == SubSeq(seq, 1, IF Len(seq) < n THEN Len(seq) ELSE n)

\* m.get(key)
Get(m, key) == IF key \in DOMAIN m.fields THEN Some(m.fields[key]) ELSE None

Summary(m) ==
    [id |-> Get(m, "idMeal"), title |-> Get(m, "strMeal"),
     thumbnail |-> Get(m, "strMealThumb"), category |-> Get(m, "strCategory"),
     area |-> Get(m, "strArea")]

\* for m in meals[:12]: results.append({...}), until an item has no .get
RECURSIVE Normalize(_, _)
Normalize(items, results) ==
    IF items = <<>> THEN [raised |-> FALSE, results |-> results]
    ELSE IF ~Head(items).dict THEN [raised |-> TRUE, results |-> results]
    ELSE Normalize(Tail(items), Append(results, Summary(Head(items))))

\* the try block of lines 129-150: results after it
Results(payload, ext) ==
    IF Endpoint(payload) = "none" THEN <<>>
    ELSE IF FetchRaises(ext) \/ SliceRaises(ext) THEN <<>>
    ELSE LET loop == Normalize(Take(FetchedMeals(ext), MaxResults), <<>>)
         IN  IF loop.raised THEN <<>> ELSE loop.results

\* variant of Persists that records a search only when a call was made
PersistsWhenSearched(payload) ==
    Truthy(payload.user_email) /\ Endpoint(payload) # "none"

\* if payload.user_email:
Persists(payload) == Truthy(payload.user_email)

\* the response of the recipe route, with the handler's results list as it
\* stands after the try block (line 150)
RecipeResponse(payload, ext, code, body, ops) ==
    [route |-> "recipes", req |-> payload, ext |-> ext, status |-> code,
     body |-> body, ops |-> ops, results |-> Results(payload, ext)]

RecipeSearch(payload, ext) ==
    /\ IF ~ValidRecipeSearch(payload)
       THEN /\ Reply(Rejected("recipes", payload))
            /\ UNCHANGED recipesearch
       ELSE IF ~Persists(payload)
       THEN /\ Reply(RecipeResponse(payload, ext, 200,
                                    [results |-> Results(payload, ext)],
                                    ExternalCalls(payload)))
            /\ UNCHANGED recipesearch
       ELSE IF CreateDocumentRaises
       THEN /\ Reply(RecipeResponse(payload, ext, 500,
                                    Detail("Internal Server Error"),
                                    ExternalCalls(payload)
                                        \o <<OpInsert("recipesearch", payload)>>))
            /\ UNCHANGED recipesearch
       ELSE /\ Len(recipesearch) < MaxSearches
            /\ recipesearch' = Inserted(recipesearch, payload)
            /\ Reply(RecipeResponse(payload, ext, 200,
                                    [results |-> Results(payload, ext)],
                                    ExternalCalls(payload)
                                        \o <<OpInsert("recipesearch", payload)>>))
    /\ UNCHANGED <<db, users, pc, req>>

\* the outcomes the external service can have for this request
OutcomesFor(payload) ==
    IF ValidRecipeSearch(payload) /\ Endpoint(payload) # "none"
    THEN ExtOutcomes ELSE {NoExt}

(***************************************************************************)
(* POST /diet/plan                                                         *)
(*                                                                         *)
(* height_cm is given in centimetres and weight_kg in hundredths of a      *)
(* kilogram.  The handler computes bmi in double precision: the model      *)
(* keeps the exact quotient num/den together with the sign err of the      *)
(* rounding error the double carries, which decides a comparison or a      *)
(* rounding only when the exact quotient sits on the boundary.  The bmi    *)
(* field of the response is held in tenths.                                *)
(***************************************************************************)
FoodTypes ==
    {"veg", "non-veg", "vegan", "lactose-intolerant", "gluten-free", "keto",
     "paleo", "other"}

Goals ==
    {"lose-weight", "gain-weight", "maintain", "post-surgery-guidance",
     "improve-performance", "other"}

Heights == {0, 100, 104, 200}
Weights == {0, 1844, 1846, 1850, 2496, 2500, 2704, 2996, 3000, 7384, 7400, 12000}

\* every height and weight with one food type and goal, every food type and
\* goal with two heights and weights, and a form failing each constraint
DietRequests ==
    {info \in [age : {30}, height_cm : Heights \ {0}, weight_kg : Weights \ {0},
               food_type : FoodTypes, goal : Goals] :
        \/ info.food_type = "veg" /\ info.goal = "maintain"
        \/ info.height_cm = 100 /\ info.weight_kg \in {1846, 3000}}
    \cup [age : {0, 121}, height_cm : {100}, weight_kg : {1850},
          food_type : {"veg"}, goal : {"maintain"}]
    \cup [age : {30}, height_cm : {0, 100}, weight_kg : {0},
          food_type : {"veg"}, goal : {"maintain"}]
    \cup [age : {30}, height_cm : {0}, weight_kg : {1850},
          food_type : {"bogus"}, goal : {"maintain", "bogus"}]

\* DietRequest(BaseModel)
ValidDietRequest(info) ==
    /\ info.age >= 1 /\ info.age <= 120
    /\ info.height_cm > 0
    /\ info.weight_kg > 0
    /\ info.food_type \in FoodTypes
    /\ info.goal \in Goals

\* Heights h for which h/100 and its square are exact in binary
ExactHeights == {25, 50, 100, 200, 400}

\* Signs the rounding error of weight_kg / ((height_cm/100) ** 2) can have:
\* none when every operand and operation is exact
ErrSigns(info) ==
    IF ~ValidDietRequest(info) THEN {0}
    ELSE IF info.height_cm \in ExactHeights
    THEN (IF info.weight_kg % 25 = 0 THEN {0} ELSE {-1, 1})
    ELSE {-1, 0, 1}

\* bmi = info.weight_kg / ((info.height_cm/100) ** 2)
Bmi(info, err) ==
    [num |-> info.weight_kg * 100, den |-> info.height_cm * info.height_cm,
     err |-> err]

\* bmi < halves/2, for a threshold that is exact in binary
Below(bmi, halves) ==
    \/ 2 * bmi.num < halves * bmi.den
    \/ 2 * bmi.num = halves * bmi.den /\ bmi.err < 0

\* variant of Category that classifies the rounded bmi
CategoryOfRounded(bmi) ==
    LET n == 10 * bmi.num
        tenths == IF 2 * (n % bmi.den) < bmi.den THEN n \div bmi.den
                  ELSE (n \div bmi.den) + 1
    IN  IF tenths < 185 THEN "underweight"
        ELSE IF tenths < 250 THEN "normal"
        ELSE IF tenths < 300 THEN "overweight"
        ELSE "obese"

Category(bmi) ==
    IF Below(bmi, 37) THEN "underweight"
    ELSE IF Below(bmi, 50) THEN "normal"
    ELSE IF Below(bmi, 60) THEN "overweight"
    ELSE "obese"

\* round(bmi, 1), in tenths: the nearest tenth; on an exact tie the rounding
\* error decides, and an exactly represented tie goes to the even tenth
Round1(bmi) ==
    LET n == 10 * bmi.num
        q == n \div bmi.den
        r == n % bmi.den
    IN  IF 2 * r < bmi.den THEN q
        ELSE IF 2 * r > bmi.den THEN q + 1
        ELSE IF bmi.err < 0 THEN q
        ELSE IF bmi.err > 0 THEN q + 1
        ELSE IF q % 2 = 0 THEN q ELSE q + 1

FoodLines(food_type) ==
    (IF food_type \in {"veg", "vegan"}
     THEN <<"Prioritize legumes, tofu, nuts, seeds for protein.">> ELSE <<>>)
    \o (IF food_type = "non-veg"
        THEN <<"Lean proteins like chicken, fish, eggs; minimize fried foods.">>
        ELSE <<>>)
    \o (IF food_type = "lactose-intolerant"
        THEN <<"Use lactose-free dairy or fortified plant milks.">> ELSE <<>>)

\* variant of GoalLines with no final else branch
GoalLinesNoElse(goal) ==
    IF goal = "lose-weight"
    THEN <<"Aim for a 300-500 kcal deficit.",
           "High-volume, low-calorie foods (salads, soups).",
           "30-40 minutes of brisk walking or cardio, 5x/week.">>
    ELSE IF goal = "gain-weight"
    THEN <<"300-400 kcal surplus with 1.6-2.2 g/kg protein.",
           "Strength training 3-4x/week.",
           "Add calorie-dense snacks (nut butters, trail mix).">>
    ELSE IF goal = "post-surgery-guidance"
    THEN <<"Focus on soft, easily digestible foods as advised.",
           "Ensure adequate protein and vitamin C for healing.",
           "Hydrate well and follow medical guidance.">>
    ELSE <<>>

GoalLines(goal) ==
    IF goal = "lose-weight"
    THEN <<"Aim for a 300-500 kcal deficit.",
           "High-volume, low-calorie foods (salads, soups).",
           "30-40 minutes of brisk walking or cardio, 5x/week.">>
    ELSE IF goal = "gain-weight"
    THEN <<"300-400 kcal surplus with 1.6-2.2 g/kg protein.",
           "Strength training 3-4x/week.",
           "Add calorie-dense snacks (nut butters, trail mix).">>
    ELSE IF goal = "post-surgery-guidance"
    THEN <<"Focus on soft, easily digestible foods as advised.",
           "Ensure adequate protein and vitamin C for healing.",
           "Hydrate well and follow medical guidance.">>
    ELSE <<"Balanced plate: half veggies, quarter protein, quarter whole grains.">>

Guidelines(info) == FoodLines(info.food_type) \o GoalLines(info.goal)

DayPlan(info) ==
    <<[meal |-> "Breakfast",
       ideas |-> <<"Oatmeal with chia and berries",
                   IF info.food_type # "vegan" THEN "Veggie omelette"
                   ELSE "Tofu scramble",
                   "Smoothie with spinach, banana, and plant milk">>],
      [meal |-> "Lunch",
       ideas |-> <<"Quinoa bowl with beans and veggies",
                   IF info.food_type = "non-veg" THEN "Grilled chicken salad"
                   ELSE "Chickpea salad",
                   "Lentil soup with whole-grain toast">>],
      [meal |-> "Dinner",
       ideas |-> <<"Stir-fry veggies with tofu/tempeh",
                   IF info.food_type = "non-veg"
                   THEN "Baked fish with steamed veggies"
                   ELSE "Rajma with brown rice",
                   "Vegetable khichdi or millet upma">>]>>

Plan(info, err) ==
    [bmi |-> Round1(Bmi(info, err)),
     bmi_category |-> Category(Bmi(info, err)),
     guidelines |-> Guidelines(info),
     sample_day |-> DayPlan(info)]

GenerateDietPlan(info, err) ==
    /\ IF ~ValidDietRequest(info)
       THEN Reply(Rejected("diet", info))
       ELSE Reply(Response("diet", info, [kind |-> "double", err |-> err], 200,
                           Plan(info, err), <<>>))
    /\ UNCHANGED <<db, users, recipesearch, pc, req>>

(***************************************************************************)
(* Initial state: the process has started, no request has been served.     *)
(* The store outlives the process, so the user collection may already      *)
(* hold an account.                                                        *)
(***************************************************************************)
Ann == [name |-> <<"A">>, email |-> EmailA, password |-> <<"p", "a", "s", "s">>]

NoRequest == Response("none", None, NoExt, 0, Detail("none"), <<>>)

Init ==
    /\ db \in {"configured", "none"}
    /\ users \in (IF Configured THEN {<<>>, <<Ann>>} ELSE {<<>>})
    /\ recipesearch = <<>>
    /\ pc = [p \in Procs |-> "idle"]
    /\ req = [p \in Procs |-> None]
    /\ last = NoRequest

(***************************************************************************)
(* Account routes served concurrently: the two halves of a signup may      *)
(* interleave with any other request.                                      *)
(***************************************************************************)
Next ==
    \/ \E p \in Procs : \E payload \in AuthPayloads : SignupCheck(p, payload)
    \/ \E p \in Procs : SignupInsert(p)
    \/ \E payload \in AuthPayloads : Login(payload)

Spec == Init /\ [][Next]_vars

(***************************************************************************)
(* Account routes served one request at a time.                            *)
(***************************************************************************)
AllIdle == \A q \in Procs : pc[q] = "idle"

NextSeq ==
    \/ \E p \in Procs : \E payload \in AuthPayloads :
           AllIdle /\ SignupCheck(p, payload)
    \/ \E p \in Procs : SignupInsert(p)
    \/ \E payload \in AuthPayloads : AllIdle /\ Login(payload)

SpecSeq == Init /\ [][NextSeq]_vars

(***************************************************************************)
(* The recipe route, under every outcome of the external service.          *)
(***************************************************************************)
NextRecipe ==
    \E payload \in RecipeSearches :
        \E ext \in OutcomesFor(payload) : RecipeSearch(payload, ext)

SpecRecipe == Init /\ [][NextRecipe]_vars

(***************************************************************************)
(* The diet route, over a grid of intake forms.                            *)
(***************************************************************************)
NextDiet ==
    \E info \in DietRequests : \E err \in ErrSigns(info) :
        GenerateDietPlan(info, err)

SpecDiet == Init /\ [][NextDiet]_vars

(***************************************************************************)
(* Properties of the account routes.                                       *)
(***************************************************************************)
HasEmail(coll, email) == \E i \in 1..Len(coll) : coll[i].email = email

Matches(coll, email, password) ==
    {i \in 1..Len(coll) : coll[i].email = email /\ coll[i].password = password}

UniqueEmails ==
    \A i, j \in 1..Len(users) : i # j => users[i].email # users[j].email

\* a signup or login response was sent in this step
Answered(route) == last' # last /\ last'.route = route

\* C1: with signups served one at a time against a configured store, a signup
\* whose email is already in the user collection is answered 400 "User already
\* exists" and inserts nothing, no signup on a present email passes the
\* existence check, and the collection never holds two records with one email.
C1_SequentialSignupKeepsEmailsUnique ==
    /\ []UniqueEmails
    /\ [][(/\ Answered("signup")
           /\ Configured
           /\ ValidAuthPayload(last'.req)
           /\ HasEmail(users, last'.req.email))
          => (/\ last'.status = 400
              /\ last'.body = Detail("User already exists")
              /\ users' = users)]_vars
    /\ [][\A p \in Procs :
            (pc[p] = "idle" /\ pc'[p] = "signup_insert" /\ Configured)
            => ~HasEmail(users, Val(req'[p]).email)]_vars

\* C1 witness: a signup on an email the collection holds was answered 400
C1_ConflictAnswered ==
    /\ last.route = "signup"
    /\ last.status = 400
    /\ Configured
    /\ HasEmail(users, last.req.email)

\* C2: the insert half of a signup is not guarded by the existence check: once
\* a signup has passed the check, its insert step (with a valid User and a
\* configured store) appends its record and answers 200 whatever the user
\* collection holds by then, so two interleaved signups with one email both
\* succeed and leave two records sharing that email.
C2_InsertIsUnguarded ==
    [][\A p \in Procs :
         (/\ pc[p] = "signup_insert"
          /\ pc'[p] = "idle"
          /\ Configured
          /\ Len(Val(req[p]).password) >= MinPasswordLen)
         => (/\ Len(users') = Len(users) + 1
             /\ SubSeq(users', 1, Len(users)) = users
             /\ users'[Len(users')].email = Val(req[p]).email
             /\ last'.status = 200
             /\ last'.body.ok)]_vars

\* C2 witness: two records share an email and the second signup was answered 200
C2_TwoRecordsShareEmail ==
    /\ \E i, j \in 1..Len(users) : i < j /\ users[i].email = users[j].email
    /\ last.route = "signup"
    /\ last.status = 200
    /\ users[Len(users)].email = last.req.email

\* C3: with the store configured, a login is answered 200 exactly when some
\* stored record has both the given email and the given password, and 401
\* "Invalid credentials" otherwise; the 200 body holds ok, the stored email and
\* the stored name and nothing else; the login leaves the store unchanged.
C3_LoginMatchesExactly ==
    [][(Answered("login") /\ Configured /\ ValidAuthPayload(last'.req))
       => (/\ users' = users
           /\ recipesearch' = recipesearch
           /\ IF Matches(users, last'.req.email, last'.req.password) # {}
              THEN /\ last'.status = 200
                   /\ DOMAIN last'.body = {"ok", "email", "name"}
                   /\ last'.body.ok
                   /\ \E i \in Matches(users, last'.req.email, last'.req.password) :
                        /\ last'.body.email = users[i].email
                        /\ last'.body.name = users[i].name
              ELSE /\ last'.status = 401
                   /\ last'.body = Detail("Invalid credentials"))]_vars

\* C3 witness: a login with a stored email and another password was answered 401
C3_WrongPasswordRefused ==
    /\ last.route = "login"
    /\ last.status = 401
    /\ HasEmail(users, last.req.email)

\* C4: input validation precedes all handler logic: no signup request reaches
\* the existence check on the store and then fails on a field constraint of the
\* Account record (the password length).
C4_ValidationBeforeHandler ==
    ~(/\ last.route = "signup"
      /\ last.ops # <<>>
      /\ last.ops[1] = OpFind("user")
      /\ Len(last.req.password) < MinPasswordLen
      /\ last.status \notin {200, 400, 422})

(***************************************************************************)
(* Properties of the recipe route.                                         *)
(***************************************************************************)
\* the operations of one kind among those a handler performed
OpsOf(ops, kind) == SelectSeq(ops, LAMBDA o : o.op = kind)

\* the search was accepted by request validation and served by the handler
Searched == last.route = "recipes" /\ ValidRecipeSearch(last.req)

\* the external call answered 2xx with an object whose meals are null or an
\* array whose items, as far as the handler reads them, are objects
WellFormed(ext) ==
    /\ ext.kind = "response"
    /\ ext.code = 200
    /\ ext.body.json = "object"
    /\ ext.body.meals \in {"null", "list"}
    /\ ext.body.meals = "list" =>
         \A i \in 1..Len(ext.body.list) : i <= MaxResults => ext.body.list[i].dict

ReturnedMeals(ext) == IF ext.body.meals = "list" THEN ext.body.list ELSE <<>>

FieldOf(m, key) == IF key \in DOMAIN m.fields THEN <<m.fields[key]>> ELSE <<>>

\* C5: every valid recipe search is answered 200 with a results list, whatever
\* the external call and the store insert of the query do.
C5_RecipeSearchAlwaysAnswers200 ==
    Searched => (last.status = 200 /\ "results" \in DOMAIN last.body)

\* C6: the results of a search that made an external call are the summaries
\* {id, title, thumbnail, category, area} of the first 12 meals in the service's
\* order when the call answered a well-formed 2xx response, and the empty list
\* on every failure of the call (non-2xx status included) or of an item.
C6_ResultsAllOrNothing ==
    (Searched /\ last.ext.kind # "none")
    => IF WellFormed(last.ext)
       THEN LET meals == ReturnedMeals(last.ext)
            IN  /\ Len(last.results) = (IF Len(meals) < 12 THEN Len(meals) ELSE 12)
                /\ \A i \in 1..Len(last.results) :
                     last.results[i] =
                       [id |-> FieldOf(meals[i], "idMeal"),
                        title |-> FieldOf(meals[i], "strMeal"),
                        thumbnail |-> FieldOf(meals[i], "strMealThumb"),
                        category |-> FieldOf(meals[i], "strCategory"),
                        area |-> FieldOf(meals[i], "strArea")]
       ELSE last.results = <<>>

\* s.split(c), for checking a joined parameter against its items
RECURSIVE SplitAll(_, _)
SplitAll(s, c) ==
    IF \A i \in 1..Len(s) : s[i] # c THEN <<s>>
    ELSE <<SplitHead(s, c)>>
             \o SplitAll(SubSeq(s, Len(SplitHead(s, c)) + 2, Len(s)), c)

\* the external calls of the latest search follow the precedence, given which
\* requests count as having their query set
CallsFollowPrecedence(querySet) ==
    LET calls == OpsOf(last.ops, "get")
    IN  /\ Len(calls) <= 1
        /\ IF querySet
           THEN calls = <<OpGet("search", Val(last.req.query))>>
           ELSE IF last.req.ingredients # None /\ Val(last.req.ingredients) # <<>>
           THEN /\ Len(calls) = 1
                /\ calls[1].target = "filter"
                /\ SplitAll(calls[1].param, ",") = Val(last.req.ingredients)
           ELSE /\ calls = <<>>
                /\ last.results = <<>>

\* C7 as stated: a search makes at most one external call; when query is set
\* (not None) it is the search-by-name call with that term; else when
\* ingredients is a non-empty list it is the filter call with the items joined
\* by commas; else there is no call and results is empty.
C7_QuerySetTakesPrecedence ==
    Searched => CallsFollowPrecedence(last.req.query # None)

\* C7 amended: the same, with the query counting as set only when it is a
\* non-empty string; an empty query falls through to the ingredients.
C7_NonEmptyQueryTakesPrecedence ==
    Searched =>
        CallsFollowPrecedence(last.req.query # None /\ Val(last.req.query) # <<>>)

\* C7 witness: an empty query with ingredients was served by the filter call
C7_EmptyQueryFallsThrough ==
    /\ Searched
    /\ last.req.query = Some(<<>>)
    /\ last.req.ingredients = Some(<<Egg, Ham>>)
    /\ OpsOf(last.ops, "get") = <<OpGet("filter", <<"e", "g", ",", "h">>)>>

\* C8: a recipe search issues exactly one insert, of the raw query into the
\* recipesearch collection, when user_email is present, whatever the external
\* call did and whether or not it was made (on a configured store the
\* collection grows by exactly that record), and issues no insert and leaves
\* the store unchanged when user_email is absent; it never changes the user
\* collection.
C8_SearchPersistsIffEmailPresent ==
    [][(last'.route = "recipes" /\ ValidRecipeSearch(last'.req))
       => (/\ users' = users
           /\ OpsOf(last'.ops, "find") = <<>>
           /\ IF last'.req.user_email # None
              THEN /\ OpsOf(last'.ops, "insert")
                        = <<OpInsert("recipesearch", last'.req)>>
                   /\ Configured => recipesearch' = Append(recipesearch, last'.req)
              ELSE /\ OpsOf(last'.ops, "insert") = <<>>
                   /\ recipesearch' = recipesearch)]_vars

\* C8 witness: a search with user_email that made no external call was recorded
C8_RecordedWithoutCall ==
    /\ Searched
    /\ last.req.user_email = Some(EmailA)
    /\ OpsOf(last.ops, "get") = <<>>
    /\ recipesearch = <<last.req>>
    /\ users = <<Ann>>

(***************************************************************************)
(* Properties of the diet route.                                           *)
(***************************************************************************)
\* a diet plan was returned
Planned == last.route = "diet" /\ last.status = 200

\* the exact quotient weight_kg / (height_cm/100)^2 of the latest request is
\* num/den, and the double the handler computed differs from it by a rounding
\* error of sign last.ext.err
QuotientNum == last.req.weight_kg * 100
QuotientDen == last.req.height_cm * last.req.height_cm

\* the category the thresholds give a bmi held in tenths
CategoryOfTenths(tenths) ==
    IF tenths < 185 THEN "underweight"
    ELSE IF tenths < 250 THEN "normal"
    ELSE IF tenths < 300 THEN "overweight"
    ELSE "obese"

\* the returned bmi is the quotient rounded to one decimal
BmiIsRounded ==
    LET diff == 10 * QuotientNum - last.body.bmi * QuotientDen
    IN  2 * diff <= QuotientDen /\ -2 * diff <= QuotientDen

\* the computed double is below the threshold halves/2
ComputedBelow(halves) ==
    \/ 2 * QuotientNum < halves * QuotientDen
    \/ 2 * QuotientNum = halves * QuotientDen /\ last.ext.err < 0

\* C9 as stated: the bmi field is the quotient rounded to one decimal and the
\* category matches the thresholds with respect to that returned bmi (18.5 is
\* normal, 25.0 overweight, 30.0 obese).
C9_CategoryMatchesReturnedBmi ==
    Planned =>
        /\ BmiIsRounded
        /\ last.body.bmi_category = CategoryOfTenths(last.body.bmi)

\* C9 amended: the bmi field is the quotient rounded to one decimal and the
\* category matches the thresholds with respect to the unrounded bmi the
\* handler computed; it differs from the category of the returned bmi only when
\* the returned bmi is exactly 18.5, 25.0 or 30.0 and the unrounded bmi was
\* below that threshold, and then it is the category just below.
C9_CategoryMatchesUnroundedBmi ==
    Planned =>
        /\ BmiIsRounded
        /\ last.body.bmi_category =
             (IF ComputedBelow(37) THEN "underweight"
              ELSE IF ComputedBelow(50) THEN "normal"
              ELSE IF ComputedBelow(60) THEN "overweight"
              ELSE "obese")
        /\ last.body.bmi_category # CategoryOfTenths(last.body.bmi) =>
             /\ last.body.bmi \in {185, 250, 300}
             /\ last.body.bmi_category = CategoryOfTenths(last.body.bmi - 1)

\* C9 witness: a plan with bmi 18.5 says underweight (18.46 unrounded)
C9_RoundedUpAcrossThreshold ==
    /\ Planned
    /\ last.body.bmi = 185
    /\ last.body.bmi_category = "underweight"
    /\ 2 * QuotientNum < 37 * QuotientDen

ExpectedFoodLines(food_type) ==
    CASE food_type \in {"veg", "vegan"} ->
           <<"Prioritize legumes, tofu, nuts, seeds for protein.">>
      [] food_type = "non-veg" ->
           <<"Lean proteins like chicken, fish, eggs; minimize fried foods.">>
      [] food_type = "lactose-intolerant" ->
           <<"Use lactose-free dairy or fortified plant milks.">>
      [] OTHER -> <<>>

ExpectedGoalLines(goal) ==
    CASE goal = "lose-weight" ->
           <<"Aim for a 300-500 kcal deficit.",
             "High-volume, low-calorie foods (salads, soups).",
             "30-40 minutes of brisk walking or cardio, 5x/week.">>
      [] goal = "gain-weight" ->
           <<"300-400 kcal surplus with 1.6-2.2 g/kg protein.",
             "Strength training 3-4x/week.",
             "Add calorie-dense snacks (nut butters, trail mix).">>
      [] goal = "post-surgery-guidance" ->
           <<"Focus on soft, easily digestible foods as advised.",
             "Ensure adequate protein and vitamin C for healing.",
             "Hydrate well and follow medical guidance.">>
      [] goal \in {"maintain", "improve-performance", "other"} ->
           <<"Balanced plate: half veggies, quarter protein, quarter whole grains.">>

\* C10: the guidelines of a plan depend on (food_type, goal) alone: at most one
\* food-type line (legume/tofu for veg and vegan, lean protein for non-veg,
\* lactose-free for lactose-intolerant, none otherwise) followed by exactly one
\* goal branch (three lines for lose-weight, gain-weight and
\* post-surgery-guidance, the balanced-plate line for the other goals); the
\* list has 1 to 4 entries.
C10_GuidelinesShape ==
    Planned =>
        /\ last.body.guidelines =
             ExpectedFoodLines(last.req.food_type) \o ExpectedGoalLines(last.req.goal)
        /\ Len(ExpectedFoodLines(last.req.food_type)) <= 1
        /\ Len(ExpectedGoalLines(last.req.goal)) \in {1, 3}
        /\ Len(last.body.guidelines) >= 1
        /\ Len(last.body.guidelines) <= 4

\* C10 witness: (vegan, lose-weight) gives the legume line and the three
\* lose-weight lines
C10_VeganLoseWeight ==
    /\ Planned
    /\ last.req.food_type = "vegan"
    /\ last.req.goal = "lose-weight"
    /\ last.body.guidelines =
         <<"Prioritize legumes, tofu, nuts, seeds for protein.",
           "Aim for a 300-500 kcal deficit.",
           "High-volume, low-calorie foods (salads, soups).",
           "30-40 minutes of brisk walking or cardio, 5x/week.">>

====
